---- MODULE Spec2Model ----
(***************************************************************************)
(* Model of the resumable conversation state machine OutputExampleFlow     *)
(* (src/crewai_flow.py).  One flow instance is driven by a caller that     *)
(* invokes resume(id, user_input) repeatedly; each call runs the flow's    *)
(* methods one after the other (initialize, handle_user_input, routing and *)
(* the handler chain selected by routing) until the chain ends.            *)
(*                                                                         *)
(* A user text is a sequence of one-character strings, so that strip()     *)
(* and upper() are computed on characters.  Assistant messages are         *)
(* strings built by concatenation as the f-strings of the source do.       *)
(***************************************************************************)
EXTENDS Integers, Sequences, FiniteSets, TLC

VARIABLES
    state,      \* self.state of the flow instance: a mapping from keys to values
    pc,         \* the method the running kickoff executes next, "idle" between calls
    output,     \* return value of the method kickoff executed last
    ret,        \* the tuple returned by the last finished resume call
    arg,        \* the user_input argument of the current / last resume call
    pre,        \* self.state at the moment the current / last resume call was made
    steps,      \* the methods executed so far by the current / last resume call
    calls,      \* the text of every resume call so far (empty for None)
    call,       \* the id argument of the current / last resume call and whether
                \* the call was made on a newly constructed flow
    persistence,\* the module-level InMemoryFlowPersistence: _storage and _initialized
    saved,      \* per flow_uuid, the state_data of the last save_state a caller
                \* of the persistence made itself
    loaded,     \* the flow_uuid and the result of the last load_state a caller
                \* of the persistence made itself
    peer,       \* the flow of the request another thread of the server is serving:
                \* its state, pc, output, ret, arg, pre, steps and call
    threads,    \* per thread that calls the persistence itself: the call it is in
                \* (op, flow_uuid, state_data) and its position pc in that call
    lock,       \* the thread that holds self._lock of the persistence, 0 when free
    resets,     \* the number of times init_db has executed self._storage = {}
    managers,   \* the SessionManager objects constructed so far: the session_id of
                \* each and whether the constructor was given one
    sessions    \* the get_session calls made so far: the manager, the agent name
                \* used and the id of the SQLiteSession returned

vars ==
    <<state, pc, output, ret, arg, pre, steps, calls, call, persistence, saved, loaded, peer,
      threads, lock, resets, managers, sessions>>

(***************************************************************************)
(* Bounds                                                                  *)
(***************************************************************************)
\* number of resume calls made on the session under Spec
MaxCalls == 5

\* number of resume calls made on the session under SpecText
MaxTextCalls == 3

\* number of requests served under SpecStore, and of sessions they create
MaxStoreCalls == 3

MaxSessions == 2

\* number of requests served under SpecRepair
MaxRepairCalls == 3

\* number of requests served under SpecConc
MaxConcCalls == 3

\* number of resume calls made on the session under SpecLive
MaxLiveCalls == 3

\* number of threads that call the persistence under SpecThreads
NumThreads == 2

\* number of SessionManager objects constructed under SpecSessions
MaxManagers == 3

\* number of resume calls made on the session under SpecLong
MaxLongCalls == 6

(***************************************************************************)
(* Program constants                                                       *)
(***************************************************************************)
InitialRetryCount == 2
InitialAttemptCount == 1
BatchSize == 5
MinUserInputs == 2

(***************************************************************************)
(* Values                                                                  *)
(***************************************************************************)
\* user_input: str | None
None == [isNone |-> TRUE, text |-> <<>>]

Str(t) == [isNone |-> FALSE, text |-> t]

\* the texts a caller passes: "", "Y", "N", "cats"
Texts == { <<>>, <<"Y">>, <<"N">>, <<"c", "a", "t", "s">> }

UserInputs == {None} \cup {Str(t) : t \in Texts}

\* texts that differ in whitespace and case: "", " ", "Y", "y", "N", " y ", "yes"
RichTexts ==
    { <<>>, <<" ">>, <<"Y">>, <<"y">>, <<"N">>, <<" ", "y", " ">>, <<"y", "e", "s">> }

RichUserInputs == {None} \cup {Str(t) : t \in RichTexts}

\* Python truthiness of a str | None
Truthy(u) == ~u.isNone /\ Len(u.text) > 0

\* the id the framework gives a new flow instance (uuid4)
FlowId == "flow-1"

NoId == "None"

\* the ids uuid4 can give to flow instances: "flow-1", "flow-2", ...
Uuids == { "flow-" \o ToString(i) : i \in 1..(MaxSessions + 1) }

(***************************************************************************)
(* str.strip() and str.upper() on character sequences                      *)
(***************************************************************************)
IsSpace(c) == c \in {" ", "\t", "\n"}

RECURSIVE LStrip(_)
LStrip(t) == IF t # <<>> /\ IsSpace(Head(t)) THEN LStrip(Tail(t)) ELSE t

RECURSIVE RStrip(_)
RStrip(t) ==
    IF t # <<>> /\ IsSpace(t[Len(t)]) THEN RStrip(SubSeq(t, 1, Len(t) - 1)) ELSE t

Strip(t) == RStrip(LStrip(t))

UpperChar(c) ==
    CASE c = "y" -> "Y"
      [] c = "n" -> "N"
      [] c = "e" -> "E"
      [] c = "s" -> "S"
      [] OTHER -> c

Upper(t) == [i \in 1..Len(t) |-> UpperChar(t[i])]

(***************************************************************************)
(* The state mapping                                                       *)
(***************************************************************************)
Has(s, key) == key \in DOMAIN s

Put(s, key, val) == [k \in DOMAIN s \cup {key} |-> IF k = key THEN val ELSE s[k]]

Del(s, key) == [k \in DOMAIN s \ {key} |-> s[k]]

Get(s, key, default) == IF Has(s, key) THEN s[key] ELSE default

\* state of a freshly constructed flow: only the framework's id
NewFlowState(uuid) == [k \in {"id"} |-> uuid]

NewState == NewFlowState(FlowId)

EmptyDict == [k \in {} |-> 0]

(***************************************************************************)
(* InMemoryFlowPersistence (src/crewai_persistance.py); a persistence is   *)
(* the record of its fields _storage and _initialized                      *)
(***************************************************************************)
NewPersistence == [storage |-> EmptyDict, initialized |-> FALSE]

Threads == 1..NumThreads

NoThread == 0

\* a thread that is in no call of the persistence
IdleThread == [pc |-> "idle", op |-> "none", flow_uuid |-> NoId, state_data |-> EmptyDict]

init_db(p) ==
    IF ~p.initialized THEN [storage |-> EmptyDict, initialized |-> TRUE] ELSE p

\* save_state that keeps the entry a flow_uuid already has
save_state_keeps_first(p, flow_uuid, method_name, state_data) ==
    LET p1 == IF ~p.initialized THEN init_db(p) ELSE p
    IN  IF Has(p1.storage, flow_uuid)
        THEN p1
        ELSE [p1 EXCEPT !.storage =
                 Put(p1.storage, flow_uuid,
                     [last_method |-> method_name, last_updated |-> "now",
                      state |-> state_data])]

\* save_state that updates the stored state with the fields of state_data
save_state_merges(p, flow_uuid, method_name, state_data) ==
    LET p1 == IF ~p.initialized THEN init_db(p) ELSE p
        info == IF Has(p1.storage, flow_uuid) THEN p1.storage[flow_uuid] ELSE EmptyDict
        old == Get(info, "state", EmptyDict)
        merged == [k \in DOMAIN old \cup DOMAIN state_data |->
                      IF k \in DOMAIN state_data THEN state_data[k] ELSE old[k]]
    IN  [p1 EXCEPT !.storage =
            Put(p1.storage, flow_uuid,
                Put(Put(Put(info, "last_method", method_name), "last_updated", "now"),
                    "state", merged))]

\* the time of a save is not distinguished: last_updated is always "now"
save_state(p, flow_uuid, method_name, state_data) ==
    LET p1 == IF ~p.initialized THEN init_db(p) ELSE p
        info == IF Has(p1.storage, flow_uuid) THEN p1.storage[flow_uuid] ELSE EmptyDict
    IN  [p1 EXCEPT !.storage =
            Put(p1.storage, flow_uuid,
                Put(Put(Put(info, "last_method", method_name), "last_updated", "now"),
                    "state", state_data))]

\* init_db that sets up the storage whenever it is called
must_reset_always(p) == TRUE

\* line 37, evaluated by init_db while it holds the lock
must_reset(p) == ~p.initialized

\* lines 57-73: what save_state does while it holds the lock
store_entry(p, flow_uuid, method_name, state_data) ==
    LET info == IF Has(p.storage, flow_uuid) THEN p.storage[flow_uuid] ELSE EmptyDict
    IN  [p EXCEPT !.storage =
            Put(p.storage, flow_uuid,
                Put(Put(Put(info, "last_method", method_name), "last_updated", "now"),
                    "state", state_data))]

\* lines 89-96: what load_state returns, read while it holds the lock
stored_state(p, flow_uuid) ==
    IF Has(p.storage, flow_uuid)
    THEN [found |-> TRUE, state |-> p.storage[flow_uuid]["state"]]
    ELSE [found |-> FALSE, state |-> EmptyDict]

\* the result of load_state: found = FALSE stands for None
NotFound == [found |-> FALSE, state |-> EmptyDict]

\* load_state: the persistence after the call and the value returned
load_state(p, flow_uuid) ==
    LET p1 == IF ~p.initialized THEN init_db(p) ELSE p
    IN  [persistence |-> p1,
         result |-> IF Has(p1.storage, flow_uuid)
                    THEN [found |-> TRUE, state |-> p1.storage[flow_uuid]["state"]]
                    ELSE NotFound]

(***************************************************************************)
(* The methods of OutputExampleFlow, as functions from state to state      *)
(***************************************************************************)
\* initialize that sets retry_count without looking whether it is there
initialize_resets_retry_count(s) ==
    LET s1 == IF Has(s, "counter") THEN s ELSE Put(s, "counter", 0)
        s2 == IF Has(s1, "user_inputs") THEN s1 ELSE Put(s1, "user_inputs", <<>>)
        s3 == Put(s2, "retry_count", InitialRetryCount)
        s4 == IF Has(s3, "attempt_count") THEN s3 ELSE Put(s3, "attempt_count", InitialAttemptCount)
        s5 == IF Has(s4, "output_messages") THEN s4 ELSE Put(s4, "output_messages", <<>>)
        s6 == IF Has(s5, "history") THEN s5 ELSE Put(s5, "history", <<>>)
    IN  s6

\* initialize that does not re-create history
initialize_without_history(s) ==
    LET s1 == IF Has(s, "counter") THEN s ELSE Put(s, "counter", 0)
        s2 == IF Has(s1, "user_inputs") THEN s1 ELSE Put(s1, "user_inputs", <<>>)
        s3 == IF Has(s2, "retry_count") THEN s2 ELSE Put(s2, "retry_count", InitialRetryCount)
        s4 == IF Has(s3, "attempt_count") THEN s3 ELSE Put(s3, "attempt_count", InitialAttemptCount)
        s5 == IF Has(s4, "output_messages") THEN s4 ELSE Put(s4, "output_messages", <<>>)
    IN  s5

\* initialize that reopens a completed session
initialize_clears_completed(s) ==
    LET s0 == IF Has(s, "completed") THEN Del(s, "completed") ELSE s
        s1 == IF Has(s0, "counter") THEN s0 ELSE Put(s0, "counter", 0)
        s2 == IF Has(s1, "user_inputs") THEN s1 ELSE Put(s1, "user_inputs", <<>>)
        s3 == IF Has(s2, "retry_count") THEN s2 ELSE Put(s2, "retry_count", InitialRetryCount)
        s4 == IF Has(s3, "attempt_count") THEN s3 ELSE Put(s3, "attempt_count", InitialAttemptCount)
        s5 == IF Has(s4, "output_messages") THEN s4 ELSE Put(s4, "output_messages", <<>>)
        s6 == IF Has(s5, "history") THEN s5 ELSE Put(s5, "history", <<>>)
    IN  s6

initialize(s) ==
    LET s1 == IF Has(s, "counter") THEN s ELSE Put(s, "counter", 0)
        s2 == IF Has(s1, "user_inputs") THEN s1 ELSE Put(s1, "user_inputs", <<>>)
        s3 == IF Has(s2, "retry_count") THEN s2 ELSE Put(s2, "retry_count", InitialRetryCount)
        s4 == IF Has(s3, "attempt_count") THEN s3 ELSE Put(s3, "attempt_count", InitialAttemptCount)
        s5 == IF Has(s4, "output_messages") THEN s4 ELSE Put(s4, "output_messages", <<>>)
        s6 == IF Has(s5, "history") THEN s5 ELSE Put(s5, "history", <<>>)
    IN  s6

\* __pop_from_state: the state without the key
pop_from_state(s, key) == IF Has(s, key) THEN Del(s, key) ELSE s

\* the comparison without upper()
IsAccepted_case_sensitive(user_input) == Strip(user_input) = <<"Y">>

\* the interpretation of a confirmation text: user_input.strip().upper() == "Y"
IsAccepted(user_input) == Upper(Strip(user_input)) = <<"Y">>

\* the test that makes handle_user_input return without recording anything
IsNoInput(user_input) == Len(user_input) = 0

\* handle_user_input that starts the transcript anew with the user entry
handle_user_input_resets_history(s) ==
    IF Has(s, "last_user_input")
    THEN LET user_input == s["last_user_input"]
             input_type == Get(s, "user_input_type", "user_inputs")
             s1 == pop_from_state(pop_from_state(s, "last_user_input"), "user_input_type")
             s2 == IF input_type = "user_choice"
                   THEN Put(s1, "user_choice", IsAccepted(user_input))
                   ELSE Put(s1, "user_inputs", Append(s1["user_inputs"], user_input))
         IN  IF IsNoInput(user_input)
             THEN s1
             ELSE Put(s2, "history", <<[role |-> "user", content |-> user_input]>>)
    ELSE s

handle_user_input(s) ==
    IF Has(s, "last_user_input")
    THEN LET user_input == s["last_user_input"]
             input_type == Get(s, "user_input_type", "user_inputs")
             s1 == pop_from_state(pop_from_state(s, "last_user_input"), "user_input_type")
             s2 == IF input_type = "user_choice"
                   THEN Put(s1, "user_choice", IsAccepted(user_input))
                   ELSE Put(s1, "user_inputs", Append(s1["user_inputs"], user_input))
         IN  IF IsNoInput(user_input)
             THEN s1
             ELSE Put(s2, "history",
                      Append(s2["history"], [role |-> "user", content |-> user_input]))
    ELSE s

\* routing that still retries when no retry is left
routing_retries_at_zero(s) ==
    IF Has(s, "completed") /\ s["completed"]
    THEN "event_say_goodbye"
    ELSE IF Len(s["user_inputs"]) < MinUserInputs
    THEN "event_request_user_input"
    ELSE IF Has(s, "user_choice")
    THEN IF s["user_choice"]
         THEN "event_say_goodbye"
         ELSE IF s["retry_count"] >= 0
         THEN "event_retry"
         ELSE "event_say_goodbye"
    ELSE "event_start_processing"

routing(s) ==
    IF Has(s, "completed") /\ s["completed"]
    THEN "event_say_goodbye"
    ELSE IF Len(s["user_inputs"]) < MinUserInputs
    THEN "event_request_user_input"
    ELSE IF Has(s, "user_choice")
    THEN IF s["user_choice"]
         THEN "event_say_goodbye"
         ELSE IF s["retry_count"] > 0
         THEN "event_retry"
         ELSE "event_say_goodbye"
    ELSE "event_start_processing"

\* the method listening to an event name returned by the router
\* a flow in which handle_user_input also listens to event_start_processing
ListenerOf_backtracks(event) ==
    CASE event = "event_retry" -> "handle_retry"
      [] event = "event_start_processing" -> "handle_user_input"
      [] event = "event_request_user_input" -> "handle_request_user_input"
      [] event = "event_say_goodbye" -> "handle_say_goodbye"
      [] OTHER -> "idle"

ListenerOf(event) ==
    CASE event = "event_retry" -> "handle_retry"
      [] event = "event_start_processing" -> "handle_start_processing"
      [] event = "event_request_user_input" -> "handle_request_user_input"
      [] event = "event_say_goodbye" -> "handle_say_goodbye"
      [] OTHER -> "idle"

\* handle_retry that forgets to use up an attempt
handle_retry_keeps_count(s) ==
    LET s2 == Put(s, "attempt_count", s["attempt_count"] + 1)
    IN  Put(s2, "raw_results", <<>>)

\* handle_retry that leaves the candidates of the previous attempt in place
handle_retry_keeps_raw_results(s) ==
    LET s1 == Put(s, "retry_count", s["retry_count"] - 1)
    IN  Put(s1, "attempt_count", s1["attempt_count"] + 1)

handle_retry(s) ==
    LET s1 == Put(s, "retry_count", s["retry_count"] - 1)
        s2 == Put(s1, "attempt_count", s1["attempt_count"] + 1)
    IN  Put(s2, "raw_results", <<>>)

RawResult(n, i) == "attempt_" \o ToString(n) \o "_raw_result_" \o ToString(i)

handle_start_processing(s) ==
    LET s1 == IF Has(s, "raw_results") THEN s ELSE Put(s, "raw_results", <<>>)
    IN  Put(s1, "raw_results",
            s1["raw_results"] \o [i \in 1..BatchSize |-> RawResult(s1["attempt_count"], i)])

\* handle_processing_complete that removes the candidate it draws from raw_results
handle_processing_complete_pops(s, k) ==
    Put(Put(s, "final_result", s["raw_results"][k]),
        "raw_results",
        SubSeq(s["raw_results"], 1, k - 1)
            \o SubSeq(s["raw_results"], k + 1, Len(s["raw_results"])))

\* random.choice(raw_results): k is the index drawn
handle_processing_complete(s, k) == Put(s, "final_result", s["raw_results"][k])

\* __add_output_message that writes the transcript entry twice
add_output_message_twice(s, message) ==
    LET entry == [role |-> "assistant", content |-> message]
        s1 == Put(s, "history", Append(Append(s["history"], entry), entry))
    IN  Put(s1, "output_messages", Append(s1["output_messages"], message))

add_output_message(s, message) ==
    LET s1 == Put(s, "history",
                  Append(s["history"], [role |-> "assistant", content |-> message]))
    IN  Put(s1, "output_messages", Append(s1["output_messages"], message))

FinalResultMessage(final_result) ==
    "Final result: " \o final_result \o "\nDo you accept it Y/N?"

\* show_final_result that does not record the kind of the input it asks for
show_final_result_untagged(s) ==
    add_output_message(s, FinalResultMessage(s["final_result"]))

show_final_result(s) ==
    Put(add_output_message(s, FinalResultMessage(s["final_result"])),
        "user_input_type", "user_choice")

\* handle_request_user_input with the two prompts exchanged
handle_request_user_input_swapped(s) ==
    LET output_message == IF Len(s["user_inputs"]) = 0
                          THEN "Enter something else"
                          ELSE "Enter something"
    IN  add_output_message(Put(s, "user_input_type", "user_inputs"), output_message)

handle_request_user_input(s) ==
    LET output_message == IF Len(s["user_inputs"]) = 0
                          THEN "Enter something"
                          ELSE "Enter something else"
    IN  add_output_message(Put(s, "user_input_type", "user_inputs"), output_message)

SorryMessage(n) ==
    "Sorry, you didn't accept the result. I tried " \o ToString(n) \o " times... Good bye!"

\* handle_say_goodbye that looks at the choice before it looks at completed
handle_say_goodbye_choice_first(s) ==
    LET output_message ==
            IF Has(s, "user_choice") /\ s["user_choice"]
            THEN "All done. Good bye!"
            ELSE IF Has(s, "completed") /\ s["completed"]
            THEN "This chat already ended. Good bye!"
            ELSE SorryMessage(s["attempt_count"])
    IN  Put(add_output_message(s, output_message), "completed", TRUE)

\* handle_say_goodbye that does not mark the session completed
handle_say_goodbye_not_marking(s) ==
    LET output_message ==
            IF Has(s, "completed") /\ s["completed"]
            THEN "This chat already ended. Good bye!"
            ELSE IF Has(s, "user_choice") /\ s["user_choice"]
            THEN "All done. Good bye!"
            ELSE SorryMessage(s["attempt_count"])
    IN  add_output_message(s, output_message)

handle_say_goodbye(s) ==
    LET output_message ==
            IF Has(s, "completed") /\ s["completed"]
            THEN "This chat already ended. Good bye!"
            ELSE IF Has(s, "user_choice") /\ s["user_choice"]
            THEN "All done. Good bye!"
            ELSE SorryMessage(s["attempt_count"])
    IN  Put(add_output_message(s, output_message), "completed", TRUE)

(***************************************************************************)
(* resume: the call and its return                                         *)
(***************************************************************************)
\* a restore that keeps the id the flow was constructed with
RestoredState_keeps_own_id(s, p, id) ==
    IF id # NoId /\ id # s["id"]
    THEN LET stored == load_state(p, id).result
         IN  IF stored.found THEN Put(stored.state, "id", s["id"]) ELSE s
    ELSE s

\* lines 125-126 and 129: kickoff with an id other than the flow's own loads
\* the state stored for that id and replaces self.state by it; when nothing
\* is stored the flow only takes the id
RestoredState(s, p, id) ==
    IF id # NoId /\ id # s["id"]
    THEN LET stored == load_state(p, id).result
         IN  IF stored.found THEN stored.state ELSE Put(s, "id", id)
    ELSE s

RestoredPersistence(s, p, id) ==
    IF id # NoId /\ id # s["id"] THEN load_state(p, id).persistence ELSE p

\* lines 124-129: the inputs kickoff merges into self.state
ResumeInputs(s, id, user_input) ==
    IF Truthy(user_input) THEN Put(s, "last_user_input", user_input.text) ELSE s

Last(seq) == seq[Len(seq)]

\* resume returning output_messages[0] instead of output_messages[-1]
ResumeReturn_first_message(s, out) ==
    [id |-> s["id"],
     finished |-> (out = "event_finished"),
     message |-> s["output_messages"][1],
     history |-> s["history"]]

\* lines 130-131: the tuple resume returns, out is the output of kickoff
ResumeReturn(s, out) ==
    [id |-> s["id"],
     finished |-> (out = "event_finished"),
     message |-> Last(s["output_messages"]),
     history |-> s["history"]]

NoReturn == [id |-> NoId, finished |-> FALSE, message |-> "", history |-> <<>>]

\* line 129: one whole kickoff on the state s that holds the merged inputs,
\* with k the index random.choice draws if the run reaches it: the state it
\* ends with, the method it ends in and that method's return value
Kickoff(s, k) ==
    LET a == handle_user_input(initialize(s))
        event == routing(a)
        processed(b) ==
            show_final_result(handle_processing_complete(handle_start_processing(b), k))
    IN  CASE event = "event_retry" ->
                [state |-> processed(handle_retry(a)),
                 last |-> "show_final_result", output |-> "request_user_input"]
          [] event = "event_start_processing" ->
                [state |-> processed(a),
                 last |-> "show_final_result", output |-> "request_user_input"]
          [] event = "event_request_user_input" ->
                [state |-> handle_request_user_input(a),
                 last |-> "handle_request_user_input", output |-> "request_user_input"]
          [] event = "event_say_goodbye" ->
                [state |-> handle_say_goodbye(a),
                 last |-> "handle_say_goodbye", output |-> "event_finished"]

(***************************************************************************)
(* Actions                                                                 *)
(***************************************************************************)
Init ==
    /\ state = NewState
    /\ pc = "idle"
    /\ output = "None"
    /\ ret = NoReturn
    /\ arg = None
    /\ pre = NewState
    /\ steps = <<>>
    /\ calls = <<>>
    /\ call = [id |-> NoId, newFlow |-> FALSE]
    /\ persistence = NewPersistence
    /\ saved = EmptyDict
    /\ loaded = [flow_uuid |-> NoId, result |-> NotFound]
    /\ peer = [state |-> NewState, pc |-> "idle", output |-> "None", ret |-> NoReturn,
               arg |-> None, pre |-> NewState, steps |-> <<>>,
               call |-> [id |-> NoId, newFlow |-> FALSE]]
    /\ threads = [t \in Threads |-> IdleThread]
    /\ lock = NoThread
    /\ resets = 0
    /\ managers = <<>>
    /\ sessions = {}

\* the keys method m reads as self.state[key] without testing for them when
\* it runs on state s: the method raises KeyError when one of them is absent
Subscripted(m, s) ==
    CASE m = "handle_user_input" ->
           IF Has(s, "last_user_input") /\ ~IsNoInput(s["last_user_input"])
           THEN {"history"} \cup
                (IF Get(s, "user_input_type", "user_inputs") = "user_choice"
                 THEN {} ELSE {"user_inputs"})
           ELSE {}
      [] m = "routing" ->
           IF Has(s, "completed") /\ s["completed"]
           THEN {}
           ELSE {"user_inputs"} \cup
                (IF /\ Has(s, "user_inputs")
                    /\ Len(s["user_inputs"]) >= MinUserInputs
                    /\ Has(s, "user_choice")
                    /\ ~s["user_choice"]
                 THEN {"retry_count"} ELSE {})
      [] m = "handle_retry" -> {"retry_count", "attempt_count"}
      [] m = "handle_start_processing" -> {"attempt_count"}
      [] m = "handle_processing_complete" -> {"raw_results"}
      [] m = "show_final_result" -> {"final_result", "history", "output_messages"}
      [] m = "handle_request_user_input" -> {"user_inputs", "history", "output_messages"}
      [] m = "handle_say_goodbye" ->
           {"history", "output_messages"} \cup
           (IF \/ Has(s, "completed") /\ s["completed"]
               \/ Has(s, "user_choice") /\ s["user_choice"]
            THEN {} ELSE {"attempt_count"})
      [] OTHER -> {}

\* line 131 reads output_messages[-1] and history of the state s kickoff left
ResumeRaises(s) ==
    \/ ~Has(s, "output_messages")
    \/ ~Has(s, "history")
    \/ s["output_messages"] = <<>>

\* method m, or resume after it, raises: the call ends with the exception
Raise(m) ==
    /\ pc' = "raised"
    /\ steps' = Append(steps, m)
    /\ UNCHANGED <<managers, sessions, threads, lock, resets, peer, state, output, ret, arg, pre, calls, call, persistence, saved, loaded>>

\* method m has run: it produced state s and returned out; next is the method nxt;
\* @persist saves the state after every method
Ran(m, s, out, nxt) ==
    IF \/ ~(Subscripted(m, state) \subseteq DOMAIN state)
       \/ nxt = "idle" /\ ResumeRaises(s)
    THEN Raise(m)
    ELSE /\ state' = s
         /\ persistence' = save_state(persistence, s["id"], m, s)
         /\ output' = out
         /\ steps' = Append(steps, m)
         /\ pc' = nxt
         /\ ret' = IF nxt = "idle" THEN ResumeReturn(s, out) ELSE ret
         /\ UNCHANGED <<managers, sessions, threads, lock, resets, peer, arg, pre, calls, call, saved, loaded>>

\* resume(id, user_input) is called on a flow whose state is base
Call(base, id, user_input, isNew) ==
    /\ pc = "idle"
    /\ state' = ResumeInputs(RestoredState(base, persistence, id), id, user_input)
    /\ persistence' = RestoredPersistence(base, persistence, id)
    /\ pre' = RestoredState(base, persistence, id)
    /\ arg' = user_input
    /\ call' = [id |-> id, newFlow |-> isNew]
    /\ calls' = Append(calls, user_input.text)
    /\ steps' = <<>>
    /\ pc' = "initialize"
    /\ UNCHANGED <<managers, sessions, threads, lock, resets, peer, output, ret, saved, loaded>>

\* run_chat_loop: one flow; the id is None at first, then the id returned
Resume(id, user_input) ==
    /\ id = IF calls = <<>> THEN NoId ELSE ret.id
    /\ Call(state, id, user_input, FALSE)

\* chat_with_crewai_flow: every request constructs a flow, which gets the id
\* uuid, and passes the session_id of the request
ResumeOnNewFlow(uuid, id, user_input) ==
    /\ uuid \notin DOMAIN persistence.storage
    /\ uuid # id
    /\ id = NoId => Cardinality(DOMAIN persistence.storage) < MaxSessions
    /\ Call(NewFlowState(uuid), id, user_input, TRUE)

Initialize ==
    /\ pc = "initialize"
    /\ Ran("initialize", initialize(state), "None", "handle_user_input")

HandleUserInput ==
    /\ pc = "handle_user_input"
    /\ LET s == handle_user_input(state)
       IN  Ran("handle_user_input", s,
               IF Has(state, "last_user_input") /\ ~IsNoInput(state["last_user_input"])
               THEN "user_input" ELSE "None",
               "routing")

Routing ==
    /\ pc = "routing"
    /\ Ran("routing", state, routing(state), ListenerOf(routing(state)))

HandleRetry ==
    /\ pc = "handle_retry"
    /\ Ran("handle_retry", handle_retry(state), "None", "handle_start_processing")

HandleStartProcessing ==
    /\ pc = "handle_start_processing"
    /\ Ran("handle_start_processing", handle_start_processing(state), "None",
           "handle_processing_complete")

HandleProcessingComplete ==
    /\ pc = "handle_processing_complete"
    /\ \E k \in 1..Len(state["raw_results"]) :
          Ran("handle_processing_complete", handle_processing_complete(state, k), "None",
              "show_final_result")

ShowFinalResult ==
    /\ pc = "show_final_result"
    /\ Ran("show_final_result", show_final_result(state), "request_user_input", "idle")

HandleRequestUserInput ==
    /\ pc = "handle_request_user_input"
    /\ Ran("handle_request_user_input", handle_request_user_input(state),
           "request_user_input", "idle")

HandleSayGoodbye ==
    /\ pc = "handle_say_goodbye"
    /\ Ran("handle_say_goodbye", handle_say_goodbye(state), "event_finished", "idle")

Next ==
    \/ \E id \in {NoId, FlowId}, user_input \in UserInputs :
          Len(calls) < MaxCalls /\ Resume(id, user_input)
    \/ Initialize
    \/ HandleUserInput
    \/ Routing
    \/ HandleRetry
    \/ HandleStartProcessing
    \/ HandleProcessingComplete
    \/ ShowFinalResult
    \/ HandleRequestUserInput
    \/ HandleSayGoodbye

Spec == Init /\ [][Next]_vars

\* the same flow driven by a caller that passes texts with whitespace and mixed case
NextText ==
    \/ \E id \in {NoId, FlowId}, user_input \in RichUserInputs :
          Len(calls) < MaxTextCalls /\ Resume(id, user_input)
    \/ Initialize
    \/ HandleUserInput
    \/ Routing
    \/ HandleRetry
    \/ HandleStartProcessing
    \/ HandleProcessingComplete
    \/ ShowFinalResult
    \/ HandleRequestUserInput
    \/ HandleSayGoodbye

SpecText == Init /\ [][NextText]_vars

\* the flow behind the REST handler: every request is served by a new flow
\* that is given the session id of an earlier response, or none
StoreInputs == {None, Str(<<"Y">>), Str(<<"c", "a", "t", "s">>)}

NextStore ==
    \/ \E uuid \in Uuids, id \in {NoId} \cup DOMAIN persistence.storage,
          user_input \in StoreInputs :
          Len(calls) < MaxStoreCalls /\ ResumeOnNewFlow(uuid, id, user_input)
    \/ Initialize
    \/ HandleUserInput
    \/ Routing
    \/ HandleRetry
    \/ HandleStartProcessing
    \/ HandleProcessingComplete
    \/ ShowFinalResult
    \/ HandleRequestUserInput
    \/ HandleSayGoodbye

SpecStore == Init /\ [][NextStore]_vars

\* test_persistence: a caller that uses the persistence itself.  The test
\* uses one flow_uuid; a second one shows what a save does to another id.
TestFlowUuids == {"test-flow-123", "test-flow-456"}

TestMethods == {"generate_jokes", "select_best_joke"}

\* state dictionaries with different key sets (num_jokes and jokes left out)
TestStates ==
    { [user_input |-> "dogs", stage |-> "complete"],
      [user_input |-> "cats", stage |-> "complete"],
      [best_joke |-> "Test joke"] }

InitDb ==
    /\ persistence' = init_db(persistence)
    /\ UNCHANGED <<managers, sessions, threads, lock, resets, peer, state, pc, output, ret, arg, pre, steps, calls, call, saved, loaded>>

SaveState(flow_uuid, method_name, state_data) ==
    /\ persistence' = save_state(persistence, flow_uuid, method_name, state_data)
    /\ saved' = Put(saved, flow_uuid, state_data)
    /\ loaded' = [flow_uuid |-> NoId, result |-> NotFound]
    /\ UNCHANGED <<managers, sessions, threads, lock, resets, peer, state, pc, output, ret, arg, pre, steps, calls, call>>

LoadState(flow_uuid) ==
    /\ persistence' = load_state(persistence, flow_uuid).persistence
    /\ loaded' = [flow_uuid |-> flow_uuid, result |-> load_state(persistence, flow_uuid).result]
    /\ UNCHANGED <<managers, sessions, threads, lock, resets, peer, state, pc, output, ret, arg, pre, steps, calls, call, saved>>

NextPersist ==
    \/ InitDb
    \/ \E flow_uuid \in TestFlowUuids, method_name \in TestMethods, state_data \in TestStates :
          SaveState(flow_uuid, method_name, state_data)
    \/ \E flow_uuid \in TestFlowUuids : LoadState(flow_uuid)

SpecPersist == Init /\ [][NextPersist]_vars

\* the fields initialize creates
InitializedKeys ==
    {"counter", "user_inputs", "retry_count", "attempt_count", "output_messages", "history"}

\* a state dictionary without the given keys
Without(s, keys) == [k \in DOMAIN s \ keys |-> s[k]]

\* one session behind the REST handler whose stored state is, once and
\* between two requests, saved anew by another writer without some of the
\* fields initialize creates
NextRepair ==
    \/ \E uuid \in Uuids, id \in {NoId} \cup DOMAIN persistence.storage,
          user_input \in StoreInputs :
          /\ Len(calls) < MaxRepairCalls
          /\ id = NoId <=> DOMAIN persistence.storage = {}
          /\ id = NoId => uuid = FlowId
          /\ ResumeOnNewFlow(uuid, id, user_input)
    \/ \E id \in DOMAIN persistence.storage, missing \in SUBSET InitializedKeys :
          /\ pc = "idle"
          /\ Len(calls) < MaxRepairCalls
          /\ missing # {}
          /\ ~Has(saved, id)
          /\ SaveState(id, persistence.storage[id]["last_method"],
                       Without(persistence.storage[id]["state"], missing))
    \/ Initialize
    \/ HandleUserInput
    \/ Routing
    \/ HandleRetry
    \/ HandleStartProcessing
    \/ HandleProcessingComplete
    \/ ShowFinalResult
    \/ HandleRequestUserInput
    \/ HandleSayGoodbye

SpecRepair == Init /\ [][NextRepair]_vars

\* chat_with_crewai_flow is a def, not an async def: the server runs every
\* request in a thread of its pool, each with a flow of its own, all on the
\* one module-level persistence.  Two threads are modelled; the variables
\* state .. call are those of the thread that runs, peer those of the other,
\* and the threads are switched between two methods.
SwitchThread ==
    /\ peer' = [state |-> state, pc |-> pc, output |-> output, ret |-> ret,
                arg |-> arg, pre |-> pre, steps |-> steps, call |-> call]
    /\ state' = peer.state
    /\ pc' = peer.pc
    /\ output' = peer.output
    /\ ret' = peer.ret
    /\ arg' = peer.arg
    /\ pre' = peer.pre
    /\ steps' = peer.steps
    /\ call' = peer.call
    /\ UNCHANGED <<calls, persistence, saved, loaded, threads, lock, resets, managers,
                   sessions>>

ConcInputs == {Str(<<"Y">>), Str(<<"c", "a", "t", "s">>)}

\* one session: the first request creates it while no other request is
\* served, later requests carry its id and are served concurrently
NextConc ==
    \/ \E uuid \in Uuids, id \in {NoId} \cup DOMAIN persistence.storage,
          user_input \in ConcInputs :
          /\ Len(calls) < MaxConcCalls
          /\ id = NoId <=> DOMAIN persistence.storage = {}
          /\ id = NoId => uuid = FlowId
          /\ peer.pc = "idle" \/ (id # NoId /\ peer.call.id # NoId)
          /\ ResumeOnNewFlow(uuid, id, user_input)
    \/ SwitchThread
    \/ Initialize
    \/ HandleUserInput
    \/ Routing
    \/ HandleRetry
    \/ HandleStartProcessing
    \/ HandleProcessingComplete
    \/ ShowFinalResult
    \/ HandleRequestUserInput
    \/ HandleSayGoodbye

SpecConc == Init /\ [][NextConc]_vars

\* kickoff runs the next method of the call
KickoffStep ==
    \/ Initialize
    \/ HandleUserInput
    \/ Routing
    \/ HandleRetry
    \/ HandleStartProcessing
    \/ HandleProcessingComplete
    \/ ShowFinalResult
    \/ HandleRequestUserInput
    \/ HandleSayGoodbye

\* the flow of run_chat_loop; kickoff is a synchronous call that runs the
\* methods of a call one after the other without waiting for anything, so a
\* method that can run does run
NextLive ==
    \/ \E id \in {NoId, FlowId}, user_input \in UserInputs :
          Len(calls) < MaxLiveCalls /\ Resume(id, user_input)
    \/ KickoffStep

SpecLive == Init /\ [][NextLive]_vars /\ WF_vars(KickoffStep)

\* the flow of run_chat_loop driven for more calls with fewer texts: no
\* input, "Y", and "cats", which is a free text and at the prompt a rejection
NextLong ==
    \/ \E id \in {NoId, FlowId}, user_input \in StoreInputs :
          Len(calls) < MaxLongCalls /\ Resume(id, user_input)
    \/ KickoffStep

SpecLong == Init /\ [][NextLong]_vars

(***************************************************************************)
(* The persistence called by several threads.  A call is split where       *)
(* another thread can observe or change what it uses: the test of          *)
(* _initialized before the lock is taken, and inside init_db the taking of *)
(* the lock, the assignment to _storage and the assignment to              *)
(* _initialized.  What save_state and load_state do while they hold the    *)
(* lock is one step.                                                       *)
(***************************************************************************)
flowVars == <<state, pc, output, ret, arg, pre, steps, calls, call, peer>>

\* where a thread goes on when init_db returns
AfterInitDb(t) ==
    IF threads[t].op = "init_db"
    THEN IdleThread
    ELSE [threads[t] EXCEPT !.pc = "locked_part"]

BeginInitDb(t) ==
    /\ threads[t].pc = "idle"
    /\ threads' = [threads EXCEPT ![t] = [IdleThread EXCEPT !.pc = "init_db", !.op = "init_db"]]
    /\ UNCHANGED <<managers, sessions, flowVars, persistence, saved, loaded, lock, resets>>

BeginSaveState(t, flow_uuid, state_data) ==
    /\ threads[t].pc = "idle"
    /\ threads' = [threads EXCEPT ![t] =
                      [pc |-> "test_initialized", op |-> "save_state",
                       flow_uuid |-> flow_uuid, state_data |-> state_data]]
    /\ UNCHANGED <<managers, sessions, flowVars, persistence, saved, loaded, lock, resets>>

BeginLoadState(t, flow_uuid) ==
    /\ threads[t].pc = "idle"
    /\ threads' = [threads EXCEPT ![t] =
                      [pc |-> "test_initialized", op |-> "load_state",
                       flow_uuid |-> flow_uuid, state_data |-> EmptyDict]]
    /\ UNCHANGED <<managers, sessions, flowVars, persistence, saved, loaded, lock, resets>>

\* lines 54-55 and 86-87: if not self._initialized: self.init_db()
TestInitialized(t) ==
    /\ threads[t].pc = "test_initialized"
    /\ threads' = [threads EXCEPT ![t].pc =
                      IF ~persistence.initialized THEN "init_db" ELSE "locked_part"]
    /\ UNCHANGED <<managers, sessions, flowVars, persistence, saved, loaded, lock, resets>>

\* lines 36-37: with self._lock: if not self._initialized
InitDbLock(t) ==
    /\ threads[t].pc = "init_db"
    /\ lock = NoThread
    /\ IF must_reset(persistence)
       THEN /\ lock' = t
            /\ threads' = [threads EXCEPT ![t].pc = "init_db_storage"]
       ELSE /\ lock' = NoThread
            /\ threads' = [threads EXCEPT ![t] = AfterInitDb(t)]
    /\ UNCHANGED <<managers, sessions, flowVars, persistence, saved, loaded, resets>>

\* line 38: self._storage = {}
InitDbStorage(t) ==
    /\ threads[t].pc = "init_db_storage"
    /\ persistence' = [persistence EXCEPT !.storage = EmptyDict]
    /\ resets' = resets + 1
    /\ threads' = [threads EXCEPT ![t].pc = "init_db_initialized"]
    /\ UNCHANGED <<managers, sessions, flowVars, saved, loaded, lock>>

\* line 39: self._initialized = True, and the lock is released
InitDbInitialized(t) ==
    /\ threads[t].pc = "init_db_initialized"
    /\ persistence' = [persistence EXCEPT !.initialized = TRUE]
    /\ lock' = NoThread
    /\ threads' = [threads EXCEPT ![t] = AfterInitDb(t)]
    /\ UNCHANGED <<managers, sessions, flowVars, saved, loaded, resets>>

\* lines 57-75 of save_state
SaveStateLocked(t) ==
    /\ threads[t].pc = "locked_part"
    /\ threads[t].op = "save_state"
    /\ lock = NoThread
    /\ persistence' = store_entry(persistence, threads[t].flow_uuid, "generate_jokes",
                                  threads[t].state_data)
    /\ saved' = Put(saved, threads[t].flow_uuid, threads[t].state_data)
    /\ loaded' = [flow_uuid |-> NoId, result |-> NotFound]
    /\ threads' = [threads EXCEPT ![t] = IdleThread]
    /\ UNCHANGED <<managers, sessions, flowVars, lock, resets>>

\* lines 89-96 of load_state
LoadStateLocked(t) ==
    /\ threads[t].pc = "locked_part"
    /\ threads[t].op = "load_state"
    /\ lock = NoThread
    /\ loaded' = [flow_uuid |-> threads[t].flow_uuid,
                  result |-> stored_state(persistence, threads[t].flow_uuid)]
    /\ threads' = [threads EXCEPT ![t] = IdleThread]
    /\ UNCHANGED <<managers, sessions, flowVars, persistence, saved, lock, resets>>

NextThreads ==
    \E t \in Threads :
        \/ BeginInitDb(t)
        \/ \E flow_uuid \in TestFlowUuids, state_data \in TestStates :
              BeginSaveState(t, flow_uuid, state_data)
        \/ \E flow_uuid \in TestFlowUuids : BeginLoadState(t, flow_uuid)
        \/ TestInitialized(t)
        \/ InitDbLock(t)
        \/ InitDbStorage(t)
        \/ InitDbInitialized(t)
        \/ SaveStateLocked(t)
        \/ LoadStateLocked(t)

SpecThreads == Init /\ [][NextThreads]_vars

(***************************************************************************)
(* SessionManager (src/openai_agents_session_manager.py)                   *)
(***************************************************************************)
\* the default of the parameter session_id: Python evaluates the expression
\* str(uuid.uuid4()) once, when the def statement of __init__ is executed
DefaultSessionId == "uuid-0"

\* the session ids callers pass
GivenSessionIds == {"uuid-1", "uuid-2"}

NotGiven == "not given"

\* the agent argument of get_session: None, a name, or an Agent with a name
NoAgent == [kind |-> "None", name |-> ""]

AgentArgs ==
    {NoAgent} \cup [kind : {"str", "Agent"}, name : {"inquiry", "user_chat"}]

\* __session_id_with_postfix
session_id_with_postfix(session_id, postfix) == session_id \o "_" \o postfix

\* the id get_session gives the SQLiteSession
get_session(session_id, agent) ==
    IF agent.kind # "None"
    THEN session_id_with_postfix(session_id, agent.name)
    ELSE session_id

\* SessionManager(session_id) or SessionManager()
NewSessionManager(session_id) ==
    /\ Len(managers) < MaxManagers
    /\ managers' = Append(managers,
                          [session_id |-> IF session_id = NotGiven
                                          THEN DefaultSessionId ELSE session_id,
                           given |-> session_id # NotGiven])
    /\ UNCHANGED <<flowVars, persistence, saved, loaded, threads, lock, resets, sessions>>

GetSession(m, agent) ==
    /\ sessions' = sessions \cup
                       {[manager |-> m, agent |-> agent.name,
                         session_id |-> get_session(managers[m].session_id, agent)]}
    /\ UNCHANGED <<flowVars, persistence, saved, loaded, threads, lock, resets, managers>>

NextSessions ==
    \/ \E session_id \in GivenSessionIds \cup {NotGiven} : NewSessionManager(session_id)
    \/ \E m \in DOMAIN managers, agent \in AgentArgs : GetSession(m, agent)

SpecSessions == Init /\ [][NextSessions]_vars

(***************************************************************************)
(* Properties                                                              *)
(***************************************************************************)
\* a resume call has returned and no call is running
Returned == pc = "idle" /\ calls # <<>>

\* the confirmation prompts that present a candidate of attempt n
ConfirmPrompts(n) ==
    { "Final result: attempt_" \o ToString(n) \o "_raw_result_" \o ToString(k)
          \o "\nDo you accept it Y/N?" : k \in 1..5 }

\* C1: happy path of a new session: a first call without input returns the
\* new session id and "Enter something"; a first non-empty text returns
\* "Enter something else"; a second non-empty text returns the confirmation
\* prompt for a candidate attempt_1_raw_result_k, k in 1..5; "Y" then returns
\* "All done. Good bye!" with finished = True; the earlier calls return
\* finished = False.
C1_HappyPath ==
    (Returned /\ calls[1] = <<>>) =>
        /\ Len(calls) = 1 =>
              /\ ret.id = state["id"] /\ ret.id # NoId
              /\ ret.message = "Enter something"
              /\ ~ret.finished
        /\ (Len(calls) = 2 /\ calls[2] # <<>>) =>
              /\ ret.message = "Enter something else"
              /\ ~ret.finished
        /\ (Len(calls) = 3 /\ calls[2] # <<>> /\ calls[3] # <<>>) =>
              /\ ret.message \in ConfirmPrompts(1)
              /\ ~ret.finished
        /\ (Len(calls) = 4 /\ calls[2] # <<>> /\ calls[3] # <<>> /\ calls[4] = <<"Y">>) =>
              /\ ret.message = "All done. Good bye!"
              /\ ret.finished

C1_Witness ==
    /\ Returned
    /\ calls = << <<>>, <<"c", "a", "t", "s">>, <<"c", "a", "t", "s">>, <<"Y">> >>
    /\ ret.finished
    /\ ret.message = "All done. Good bye!"

\* the calls so far are: optionally one call without input, two non-empty
\* texts, then n answers "N"
RejectRun(n) ==
    \E p \in {0, 1} :
        /\ Len(calls) = p + 2 + n
        /\ p = 1 => calls[1] = <<>>
        /\ calls[p + 1] # <<>>
        /\ calls[p + 2] # <<>>
        /\ \A i \in 1..n : calls[p + 2 + i] = <<"N">>

NumConfirmPrompts(s) ==
    Cardinality({ i \in DOMAIN s["output_messages"] :
                      s["output_messages"][i] \in UNION {ConfirmPrompts(n) : n \in 1..3} })

\* C2: with two texts collected and every confirmation answered "N", the
\* session retries exactly twice (retry_count 2 -> 1 -> 0, attempt_count
\* 1 -> 2 -> 3, three confirmation prompts), and the third "N" ends in
\* handle_say_goodbye with the message "... I tried 3 times... Good bye!",
\* finished = True and attempt_count = 3.
C2_RejectionExhaustsRetries ==
    Returned =>
        /\ RejectRun(0) =>
              /\ state["retry_count"] = 2 /\ state["attempt_count"] = 1
              /\ ret.message \in ConfirmPrompts(1) /\ ~ret.finished
              /\ NumConfirmPrompts(state) = 1
        /\ RejectRun(1) =>
              /\ state["retry_count"] = 1 /\ state["attempt_count"] = 2
              /\ ret.message \in ConfirmPrompts(2) /\ ~ret.finished
              /\ \E i \in DOMAIN steps : steps[i] = "handle_retry"
              /\ NumConfirmPrompts(state) = 2
        /\ RejectRun(2) =>
              /\ state["retry_count"] = 0 /\ state["attempt_count"] = 3
              /\ ret.message \in ConfirmPrompts(3) /\ ~ret.finished
              /\ \E i \in DOMAIN steps : steps[i] = "handle_retry"
              /\ NumConfirmPrompts(state) = 3
        /\ RejectRun(3) =>
              /\ state["retry_count"] = 0 /\ state["attempt_count"] = 3
              /\ ret.message =
                    "Sorry, you didn't accept the result. I tried 3 times... Good bye!"
              /\ ret.finished
              /\ steps[Len(steps)] = "handle_say_goodbye"
              /\ \A i \in DOMAIN steps : steps[i] # "handle_retry"
              /\ NumConfirmPrompts(state) = 3

C2_Witness == Returned /\ RejectRun(3) /\ ret.finished /\ state["attempt_count"] = 3

\* the session of state s was accepted: it is completed and the success
\* message has been returned
Accepted(s) ==
    /\ Has(s, "completed") /\ s["completed"]
    /\ \E i \in DOMAIN s["output_messages"] : s["output_messages"][i] = "All done. Good bye!"

\* C3: every resume call made on an accepted session, whatever its input,
\* returns "This chat already ended. Good bye!" with finished = True and
\* leaves retry_count and attempt_count as they were.
C3_AcceptedIsFinal ==
    (Returned /\ Accepted(pre)) =>
        /\ ret.message = "This chat already ended. Good bye!"
        /\ ret.finished
        /\ state["retry_count"] = pre["retry_count"]
        /\ state["attempt_count"] = pre["attempt_count"]

C3_Witness ==
    /\ Returned
    /\ Accepted(pre)
    /\ Truthy(arg)
    /\ ret.message = "This chat already ended. Good bye!"

\* the session of state s has reached the terminal step
IsCompleted(s) == Has(s, "completed") /\ s["completed"]

\* the call that returned last ended in show_final_result
SuspendedAtConfirmation == Returned /\ steps[Len(steps)] = "show_final_result"

\* C4: whenever the session is suspended at the confirmation prompt,
\* raw_results holds exactly the 5 candidates attempt_n_raw_result_1..5 of
\* the current attempt n.
C4_BatchOfFive ==
    SuspendedAtConfirmation =>
        state["raw_results"] =
            [i \in 1..5 |-> "attempt_" \o ToString(state["attempt_count"])
                                \o "_raw_result_" \o ToString(i)]

\* the value of the choice, "absent" when no choice is recorded
ChoiceOf(s) ==
    IF ~Has(s, "user_choice") THEN "absent"
    ELSE IF s["user_choice"] THEN "accepted" ELSE "rejected"

\* C5: a resume call without input on a suspended, not completed session
\* leaves the number of collected user_inputs unchanged, returns
\* finished = False and re-issues a prompt of the kind the session was
\* suspended on.
C5_EmptyInputReprompts ==
    (Returned /\ ~Truthy(arg) /\ ~IsCompleted(pre) /\ Has(pre, "user_input_type")) =>
        /\ Len(state["user_inputs"]) = Len(pre["user_inputs"])
        /\ ~ret.finished
        /\ pre["user_input_type"] = "user_inputs" =>
              /\ steps[Len(steps)] = "handle_request_user_input"
              /\ ret.message \in {"Enter something", "Enter something else"}
        /\ pre["user_input_type"] = "user_choice" =>
              /\ steps[Len(steps)] = "show_final_result"
              /\ ret.message \in UNION {ConfirmPrompts(n) : n \in 1..3}

\* C6: a resume call without input on a session suspended at the
\* confirmation prompt leaves retry_count, attempt_count, user_choice and
\* completed as they were.
C6_EmptyInputAtConfirmationIsNoOp ==
    (/\ Returned
     /\ ~Truthy(arg)
     /\ ~IsCompleted(pre)
     /\ Has(pre, "user_input_type")
     /\ pre["user_input_type"] = "user_choice") =>
        /\ state["retry_count"] = pre["retry_count"]
        /\ state["attempt_count"] = pre["attempt_count"]
        /\ ChoiceOf(state) = ChoiceOf(pre)
        /\ IsCompleted(state) = IsCompleted(pre)

NumUserEntries(s) ==
    IF Has(s, "history")
    THEN Cardinality({ i \in DOMAIN s["history"] : s["history"][i].role = "user" })
    ELSE 0

\* C7: a text that is empty after trimming whitespace, such as " ", is
\* treated as no input: it is not appended to user_inputs, sets no
\* user_choice and adds no user entry to the transcript.
C7_WhitespaceIsNoInput ==
    (Returned /\ ~arg.isNone /\ \A i \in DOMAIN arg.text : arg.text[i] = " ") =>
        /\ state["user_inputs"] = Get(pre, "user_inputs", <<>>)
        /\ ChoiceOf(state) = ChoiceOf(pre)
        /\ NumUserEntries(state) = NumUserEntries(pre)

AllPresent(s) == InitializedKeys \subseteq DOMAIN s

\* C8: running initialize on a state that has counter, user_inputs,
\* retry_count, attempt_count, output_messages and history changes none of
\* them, and running it once more changes nothing either.
C8_InitializeIdempotent ==
    [][(pc = "initialize" /\ AllPresent(state)) =>
          /\ \A k \in InitializedKeys : state'[k] = state[k]
          /\ initialize(state') = state']_vars

C8_Witness ==
    /\ pc = "handle_user_input"
    /\ steps = <<"initialize">>
    /\ AllPresent(pre)
    /\ state["retry_count"] = 1
    /\ state["attempt_count"] = 2
    /\ Len(state["user_inputs"]) = 2

\* C9: once handle_user_input has run on a call with a non-empty input, the
\* input has been appended to user_inputs (and the choice left alone) when
\* the recorded kind was free text or none was recorded, and has been
\* recorded as user_choice (and user_inputs left alone) when the recorded
\* kind was confirmation; the input and the kind tag are gone from state.
\* handle_request_user_input records the kind free text, show_final_result
\* the kind confirmation.
C9_InputInterpretedByPendingKind ==
    /\ (pc = "routing" /\ Truthy(arg)) =>
          /\ (~Has(pre, "user_input_type") \/ pre["user_input_type"] = "user_inputs") =>
                /\ state["user_inputs"] = Append(Get(pre, "user_inputs", <<>>), arg.text)
                /\ ChoiceOf(state) = ChoiceOf(pre)
          /\ (Has(pre, "user_input_type") /\ pre["user_input_type"] = "user_choice") =>
                /\ Has(state, "user_choice")
                /\ state["user_inputs"] = pre["user_inputs"]
          /\ ~Has(state, "last_user_input")
          /\ ~Has(state, "user_input_type")
    /\ Returned =>
          /\ steps[Len(steps)] = "handle_request_user_input" =>
                (Has(state, "user_input_type") /\ state["user_input_type"] = "user_inputs")
          /\ steps[Len(steps)] = "show_final_result" =>
                (Has(state, "user_input_type") /\ state["user_input_type"] = "user_choice")

C9_Witness ==
    /\ pc = "routing"
    /\ Truthy(arg)
    /\ Has(pre, "user_input_type") /\ pre["user_input_type"] = "user_choice"
    /\ ~Has(pre, "user_choice")
    /\ Has(state, "user_choice")
    /\ Len(state["user_inputs"]) = 2

\* handle_user_input has just consumed a non-empty answer to a confirmation prompt
ChoiceRecorded ==
    /\ pc = "routing"
    /\ Truthy(arg)
    /\ Has(pre, "user_input_type") /\ pre["user_input_type"] = "user_choice"

\* the text is "Y" or "y" with any whitespace before and after it
TrimmedIsY(t) ==
    \E i \in DOMAIN t :
        /\ t[i] \in {"Y", "y"}
        /\ \A j \in DOMAIN t \ {i} : t[j] \in {" ", "\t", "\n"}

\* C10 as stated: a non-empty answer to a confirmation prompt is recorded as
\* accepted iff it equals "Y" compared case-insensitively.
C10_AcceptedIffY ==
    ChoiceRecorded => (state["user_choice"] <=> arg.text \in {<<"Y">>, <<"y">>})

\* C10 amended: a non-empty answer to a confirmation prompt is recorded as
\* accepted iff, with leading and trailing whitespace removed, it equals "Y"
\* compared case-insensitively; every other non-empty answer is recorded as
\* not accepted.
C10_AcceptedIffTrimmedY ==
    ChoiceRecorded => (state["user_choice"] <=> TrimmedIsY(arg.text))

C10_Witness ==
    /\ ChoiceRecorded
    /\ arg.text = <<" ", "y", " ">>
    /\ state["user_choice"]

\* the decision table of routing, in priority order
DecisionTable(s) ==
    CASE IsCompleted(s) -> "event_say_goodbye"
      [] ~IsCompleted(s) /\ Len(s["user_inputs"]) < 2 -> "event_request_user_input"
      [] ~IsCompleted(s) /\ Len(s["user_inputs"]) >= 2 /\ ChoiceOf(s) = "accepted" ->
            "event_say_goodbye"
      [] ~IsCompleted(s) /\ Len(s["user_inputs"]) >= 2 /\ ChoiceOf(s) = "rejected"
            /\ s["retry_count"] > 0 -> "event_retry"
      [] ~IsCompleted(s) /\ Len(s["user_inputs"]) >= 2 /\ ChoiceOf(s) = "rejected"
            /\ s["retry_count"] = 0 -> "event_say_goodbye"
      [] OTHER -> "event_start_processing"

\* the handler the flow declares for each route
HandlerTable ==
    [event_retry |-> "handle_retry",
     event_start_processing |-> "handle_start_processing",
     event_request_user_input |-> "handle_request_user_input",
     event_say_goodbye |-> "handle_say_goodbye"]

\* C11: every execution of routing returns the route the decision table
\* gives for the state it runs on, the route is one of the four that have a
\* handler, that handler runs next, and routing leaves the state unchanged.
C11_RoutingDecisionTable ==
    [][pc = "routing" =>
          /\ output' = DecisionTable(state)
          /\ output' \in DOMAIN HandlerTable
          /\ pc' = HandlerTable[output']
          /\ state' = state]_vars

C11_Witness ==
    /\ pc = "handle_retry"
    /\ output = "event_retry"
    /\ state["retry_count"] = 1
    /\ ChoiceOf(state) = "rejected"

Hist(s) == Get(s, "history", <<>>)

AssistantEntries(h) == { i \in DOMAIN h : h[i].role = "assistant" }

MaxOf(S) == CHOOSE x \in S : \A y \in S : y <= x

\* C12: every resume call appends at least one assistant entry to the
\* transcript, the message it returns is the last assistant entry and that
\* entry was appended during the call, and the returned transcript is the
\* whole history.
C12_ReturnsLastAssistantMessage ==
    Returned =>
        LET h == state["history"]
            A == AssistantEntries(h)
        IN  /\ \E i \in A : i > Len(Hist(pre))
            /\ MaxOf(A) > Len(Hist(pre))
            /\ ret.message = h[MaxOf(A)].content
            /\ ret.history = h

C12_Witness ==
    /\ Returned
    /\ Len(calls) >= 3
    /\ Len(Hist(pre)) >= 3
    /\ ret.message = state["history"][Len(state["history"])].content
    /\ ret.message # Hist(pre)[Len(Hist(pre))].content

\* C13: resume returns finished = True exactly when handle_say_goodbye ran
\* during the call, which is exactly when completed is true afterwards; a
\* call that ends in handle_request_user_input or show_final_result returns
\* finished = False.
C13_FinishedIffGoodbye ==
    Returned =>
        /\ ret.finished <=> (\E i \in DOMAIN steps : steps[i] = "handle_say_goodbye")
        /\ ret.finished <=> IsCompleted(state)
        /\ steps[Len(steps)] \in {"handle_request_user_input", "show_final_result"}
              => ~ret.finished

C13_Witness ==
    /\ Returned
    /\ ret.finished
    /\ IsCompleted(state)
    /\ ~IsCompleted(pre)
    /\ steps[Len(steps)] = "handle_say_goodbye"

\* h is a prefix of h2: same entries at the same positions
IsPrefixOf(h, h2) ==
    /\ Len(h) <= Len(h2)
    /\ \A i \in DOMAIN h : h2[i].role = h[i].role /\ h2[i].content = h[i].content

\* C14: the transcript is append-only: every step of a resume call leaves
\* the history it found as a prefix of the history it leaves, and every
\* entry has role user or assistant.
C14_HistoryAppendOnly ==
    [][/\ IsPrefixOf(Hist(state), Hist(state'))
       /\ \A i \in DOMAIN Hist(state') : Hist(state')[i].role \in {"user", "assistant"}]_vars

C14_Witness ==
    /\ Returned
    /\ Len(Hist(pre)) >= 2
    /\ Len(state["history"]) = Len(Hist(pre)) + 2
    /\ IsPrefixOf(Hist(pre), state["history"])

\* the kind of an assistant message: any confirmation prompt is one kind
MessageKind(m) ==
    IF m \in UNION {ConfirmPrompts(n) : n \in 1..3} THEN "confirmation" ELSE m

\* what a resume call that ended in state s, in method last, returning r, has
\* produced, apart from the candidate it selected
Outcome(s, last, r) ==
    [last |-> last,
     finished |-> r.finished,
     kind |-> MessageKind(r.message),
     retry_count |-> s["retry_count"],
     attempt_count |-> s["attempt_count"],
     user_inputs |-> s["user_inputs"],
     user_choice |-> ChoiceOf(s),
     completed |-> IsCompleted(s),
     raw_results |-> Get(s, "raw_results", <<>>)]

\* C19: the outcome of a resume call, apart from the candidate selected, is
\* determined by the state the call was made on and its input: every run
\* ends with the outcome of the run from the same state and input that
\* draws the first candidate, so any two runs agree.
C19_DeterministicOutcome ==
    Returned =>
        LET run == Kickoff(ResumeInputs(pre, pre["id"], arg), 1)
        IN  Outcome(state, steps[Len(steps)], ret)
                = Outcome(run.state, run.last, ResumeReturn(run.state, run.output))

C19_Witness ==
    /\ Returned
    /\ Truthy(arg)
    /\ steps[Len(steps)] = "show_final_result"
    /\ state["final_result"] # state["raw_results"][1]
    /\ state["attempt_count"] = 2

\* C15: a resume call without session id on a new flow starts a session with
\* an id no stored session has, and before handle_user_input runs its state
\* has counter = 0, user_inputs = [], retry_count = 2, attempt_count = 1,
\* output_messages = [] and history = []; the call returns that id, and a
\* call that is given a session id returns the id it was given.
C15_NewSessionAndStableId ==
    /\ (pc = "initialize" /\ call.newFlow /\ call.id = NoId) =>
          /\ state["id"] # NoId
          /\ state["id"] \notin DOMAIN persistence.storage
    /\ (pc = "handle_user_input" /\ call.newFlow /\ call.id = NoId) =>
          /\ state["counter"] = 0
          /\ state["user_inputs"] = <<>>
          /\ state["retry_count"] = 2
          /\ state["attempt_count"] = 1
          /\ state["output_messages"] = <<>>
          /\ state["history"] = <<>>
    /\ (Returned /\ call.newFlow /\ call.id = NoId) => ret.id = pre["id"]
    /\ (Returned /\ call.id # NoId) => ret.id = call.id

C15_Witness ==
    /\ Returned
    /\ call.newFlow
    /\ call.id # NoId
    /\ ret.id = call.id
    /\ Len(state["user_inputs"]) = 2
    /\ Cardinality(DOMAIN persistence.storage) = 2

\* C17: when a resume call has returned, load_state of the returned id gives
\* the state the flow ended with, and a new flow that is given only that id
\* runs its next call, for every input, exactly as the flow that made the
\* call would.
C17_StoreHoldsFinalState ==
    Returned =>
        /\ load_state(persistence, ret.id).result = [found |-> TRUE, state |-> state]
        /\ \A uuid \in Uuids \ {ret.id}, user_input \in StoreInputs :
              Kickoff(ResumeInputs(RestoredState(NewFlowState(uuid), persistence, ret.id),
                                   ret.id, user_input), 1)
                  = Kickoff(ResumeInputs(state, ret.id, user_input), 1)

C17_Witness ==
    /\ Returned
    /\ call.newFlow
    /\ call.id # NoId
    /\ Has(persistence.storage, ret.id)
    /\ persistence.storage[ret.id]["state"] = state
    /\ persistence.storage[ret.id]["last_method"] = "show_final_result"
    /\ Len(state["history"]) >= 4

\* what load_state has to return for flow_uuid: None when nothing was
\* saved for it, else the state_data of its last save_state
LastSaved(flow_uuid) ==
    IF Has(saved, flow_uuid)
    THEN [found |-> TRUE, state |-> saved[flow_uuid]]
    ELSE [found |-> FALSE, state |-> EmptyDict]

\* C20: load_state returns None for an id nothing was saved for, and
\* otherwise exactly the state_data of the last save_state of that id, not
\* merged with an earlier one and whatever was saved for other ids; this
\* holds of the value a load_state call returned and of every id at any time.
C20_StoreRoundTrip ==
    /\ loaded.flow_uuid # NoId => loaded.result = LastSaved(loaded.flow_uuid)
    /\ \A flow_uuid \in TestFlowUuids :
          load_state(persistence, flow_uuid).result = LastSaved(flow_uuid)

C20_Witness ==
    /\ loaded.flow_uuid = "test-flow-123"
    /\ loaded.result.found
    /\ loaded.result.state = [best_joke |-> "Test joke"]
    /\ Has(saved, "test-flow-456")
    /\ saved["test-flow-456"] = [user_input |-> "dogs", stage |-> "complete"]
    /\ persistence.storage["test-flow-123"]["last_method"] = "select_best_joke"

\* the value initialize gives a field it creates
DefaultOf(key) ==
    CASE key = "counter" -> 0
      [] key = "retry_count" -> InitialRetryCount
      [] key = "attempt_count" -> InitialAttemptCount
      [] OTHER -> <<>>

TerminalSteps == {"show_final_result", "handle_request_user_input", "handle_say_goodbye"}

\* C16: a resume call on a persisted state that lacks any subset of counter,
\* user_inputs, retry_count, attempt_count, output_messages and history never
\* raises; when initialize has run, every missing field has its default and
\* every present field the value it had; and the call, once over, has ended
\* in a prompt (show_final_result, handle_request_user_input) or in
\* handle_say_goodbye.
C16_MissingFieldsRepaired ==
    /\ pc # "raised"
    /\ (pc = "handle_user_input" /\ steps = <<"initialize">>) =>
          \A k \in InitializedKeys :
             /\ Has(state, k)
             /\ state[k] = IF Has(pre, k) THEN pre[k] ELSE DefaultOf(k)
    /\ (pc = "idle" /\ calls # <<>>) =>
          /\ Last(steps) \in TerminalSteps
          /\ ret.message = Last(state["output_messages"])

\* a call on a stored session that lacked history, retry_count and
\* attempt_count and had rejected a candidate has been served: it retried
\* with the default counts and its transcript starts anew
C16_Witness ==
    /\ pc = "idle"
    /\ call.id # NoId
    /\ Has(saved, call.id)
    /\ ~Has(saved[call.id], "history")
    /\ ~Has(saved[call.id], "retry_count")
    /\ ~Has(saved[call.id], "attempt_count")
    /\ Has(saved[call.id], "user_inputs")
    /\ ~Has(pre, "history")
    /\ "handle_retry" \in {steps[i] : i \in 1..Len(steps)}
    /\ state["retry_count"] = InitialRetryCount - 1
    /\ state["attempt_count"] = InitialAttemptCount + 1
    /\ Len(state["history"]) = 2

\* the entries of transcript h with the given role
EntriesOf(h, role) == { i \in DOMAIN h : h[i].role = role }

\* C18: when no request is being served, the stored state of the session
\* reflects every request made on it: its transcript holds one assistant
\* entry per request and one user entry per request with a non-empty input,
\* and user_inputs and user_choice together account for every such input.
\* (Every request served alone appends exactly these entries.)
C18_NoLostUpdate ==
    (pc = "idle" /\ peer.pc = "idle" /\ calls # <<>>) =>
        \A id \in DOMAIN persistence.storage :
            LET stored == persistence.storage[id]["state"]
            IN  /\ Cardinality(EntriesOf(stored["history"], "assistant")) = Len(calls)
                /\ Cardinality(EntriesOf(stored["history"], "user"))
                      = Cardinality({ i \in DOMAIN calls : calls[i] # <<>> })

\* the methods a call runs from handle_retry on
RetryChain ==
    <<"handle_retry", "handle_start_processing", "handle_processing_complete",
      "show_final_result">>

\* the last n elements of seq
Suffix(seq, n) == SubSeq(seq, Len(seq) - n + 1, Len(seq))

\* C21: every execution of handle_retry decrements retry_count by 1,
\* increments attempt_count by 1, empties raw_results and is followed by
\* handle_start_processing; a call that ran handle_retry ran it once, then
\* handle_start_processing, handle_processing_complete and
\* show_final_result, and ends unfinished at a confirmation prompt whose
\* final_result is one of the five candidates of the new attempt number.
C21_RetryStartsNewAttempt ==
    [][/\ pc = "handle_retry" =>
             /\ state'["retry_count"] = state["retry_count"] - 1
             /\ state'["attempt_count"] = state["attempt_count"] + 1
             /\ state'["raw_results"] = <<>>
             /\ pc' = "handle_start_processing"
       /\ (pc' = "idle" /\ \E i \in DOMAIN steps' : steps'[i] = "handle_retry") =>
             /\ Len(steps') >= Len(RetryChain)
             /\ Suffix(steps', Len(RetryChain)) = RetryChain
             /\ Cardinality({ i \in DOMAIN steps' : steps'[i] = "handle_retry" }) = 1
             /\ ~ret'.finished
             /\ state'["user_input_type"] = "user_choice"
             /\ state'["attempt_count"] = pre'["attempt_count"] + 1
             /\ state'["retry_count"] = pre'["retry_count"] - 1
             /\ Len(state'["raw_results"]) = BatchSize
             /\ \E k \in 1..BatchSize :
                   /\ state'["final_result"] = RawResult(state'["attempt_count"], k)
                   /\ ret'.message = FinalResultMessage(state'["final_result"])
      ]_vars

\* the second retry of a session has been served: third attempt, no retry left
C21_Witness ==
    /\ pc = "idle"
    /\ Len(steps) >= Len(RetryChain)
    /\ Suffix(steps, Len(RetryChain)) = RetryChain
    /\ state["attempt_count"] = 3
    /\ state["retry_count"] = 0
    /\ state["final_result"] = RawResult(3, 2)

\* the number of times method m occurs in the sequence seq of methods
TimesRun(seq, m) == Cardinality({ i \in DOMAIN seq : seq[i] = m })

AllMethods ==
    {"initialize", "handle_user_input", "routing", "handle_retry",
     "handle_start_processing", "handle_processing_complete", "show_final_result",
     "handle_request_user_input", "handle_say_goodbye"}

\* C22: within one resume call one method runs at a time, no method runs
\* twice, and the call ends: it is over after finitely many methods, having
\* run exactly one of handle_request_user_input, show_final_result and
\* handle_say_goodbye, and that one last.
C22_EachStepOnceAndCallEnds ==
    /\ [](/\ pc \in AllMethods \cup {"idle"}
          /\ \A m \in AllMethods : TimesRun(steps, m) <= 1
          /\ \A i \in DOMAIN steps : steps[i] \in AllMethods
          /\ pc \in AllMethods => TimesRun(steps, pc) = 0
          /\ (pc = "idle" /\ calls # <<>>) =>
                /\ Last(steps) \in TerminalSteps
                /\ \A i \in 1..(Len(steps) - 1) : steps[i] \notin TerminalSteps)
    /\ (pc # "idle") ~> (pc = "idle")

\* a call that ran the longest chain of methods is over
C22_Witness ==
    /\ pc = "idle"
    /\ steps = <<"initialize", "handle_user_input", "routing">> \o RetryChain

\* C23: in every state of a session in which initialize has run,
\* retry_count + attempt_count = 3, 0 <= retry_count <= 2 and
\* 1 <= attempt_count <= 3; handle_retry is about to run only with
\* retry_count > 0.
C23_RetryBudget ==
    (Has(state, "retry_count") /\ Has(state, "attempt_count")) =>
        /\ state["retry_count"] + state["attempt_count"]
              = InitialRetryCount + InitialAttemptCount
        /\ state["retry_count"] \in 0..InitialRetryCount
        /\ state["attempt_count"] \in InitialAttemptCount..(InitialAttemptCount + InitialRetryCount)
        /\ pc = "handle_retry" => state["retry_count"] > 0

\* the third candidate was rejected with no retry left: the session ended
\* without another retry
C23_Witness ==
    /\ pc = "idle"
    /\ Has(state, "completed")
    /\ state["retry_count"] = 0
    /\ state["attempt_count"] = 3
    /\ Has(state, "user_choice")
    /\ ~state["user_choice"]
    /\ TimesRun(steps, "handle_retry") = 0
    /\ Last(steps) = "handle_say_goodbye"

\* C24: completed never goes back: a step from a state in which completed
\* is true leads to a state in which it is true; a call that returns
\* finished = True leaves completed true; and a call made on a completed
\* session returns finished = True.
C24_CompletedIsMonotonic ==
    [][/\ IsCompleted(state) => IsCompleted(state')
       /\ (pc' = "idle" /\ ret'.finished) => IsCompleted(state')
       /\ (pc' = "idle" /\ IsCompleted(pre')) => ret'.finished
      ]_vars

\* two calls were served after the one that completed the session
C24_Witness ==
    /\ pc = "idle"
    /\ IsCompleted(pre)
    /\ IsCompleted(state)
    /\ ret.finished
    /\ Cardinality({ i \in DOMAIN state["output_messages"] :
                       state["output_messages"][i] = "This chat already ended. Good bye!" }) = 2

\* the number of calls so far that passed a non-empty input
NumNonEmptyCalls == Cardinality({ i \in DOMAIN calls : calls[i] # <<>> })

\* C25: when a call has returned and at least 5 of the calls made so far
\* passed a non-empty input, whatever the inputs and however many calls
\* without input lie between them, the session is completed; and no
\* confirmation prompt is shown for an attempt beyond the third.
C25_CompletedAfterFiveInputs ==
    /\ (pc = "idle" /\ NumNonEmptyCalls >= MinUserInputs + InitialRetryCount + 1) =>
          IsCompleted(state)
    /\ Has(state, "attempt_count") =>
          state["attempt_count"] <= InitialAttemptCount + InitialRetryCount

\* the fifth non-empty input, a third rejection, completed the session; a
\* call without input was made before the second free text
C25_Witness ==
    /\ pc = "idle"
    /\ Len(calls) = 6
    /\ calls[2] = <<>>
    /\ NumNonEmptyCalls = 5
    /\ ~IsCompleted(pre)
    /\ IsCompleted(state)
    /\ ~state["user_choice"]

\* C26: between calls a session that is not completed holds at most 2
\* user_inputs; when handle_user_input has recorded a confirmation choice,
\* exactly 2 user_inputs are held; and a session suspended at the
\* confirmation prompt holds exactly 2 user_inputs.
C26_TwoInputsBeforeChoice ==
    /\ (pc = "idle" /\ Has(state, "user_inputs") /\ ~IsCompleted(state)) =>
          Len(state["user_inputs"]) <= MinUserInputs
    /\ ChoiceRecorded => Len(state["user_inputs"]) = MinUserInputs
    /\ SuspendedAtConfirmation => Len(state["user_inputs"]) = MinUserInputs

\* a second rejection has been recorded and the third candidate is shown
C26_Witness ==
    /\ SuspendedAtConfirmation
    /\ ChoiceOf(pre) = ChoiceOf(state)
    /\ Has(state, "user_choice")
    /\ ~state["user_choice"]
    /\ Truthy(arg)
    /\ state["attempt_count"] = 3
    /\ state["user_inputs"] = << <<"c", "a", "t", "s">>, <<"N">> >>

IsAssistantEntry(entry) == entry.role = "assistant"

\* the contents of the assistant entries of transcript h, in order
AssistantContents(h) ==
    LET entries == SelectSeq(h, IsAssistantEntry)
    IN  [i \in 1..Len(entries) |-> entries[i].content]

\* C27: between calls the contents of the assistant entries of history, in
\* order, are output_messages; a call appends to history either one
\* assistant entry, or a user entry holding its input followed by one
\* assistant entry, and nothing else.
C27_TranscriptMatchesOutputLog ==
    Returned =>
        LET before == Hist(pre)
            after == state["history"]
            added == Len(after) - Len(before)
        IN  /\ AssistantContents(after) = state["output_messages"]
            /\ IsPrefixOf(before, after)
            /\ added \in {1, 2}
            /\ after[Len(after)].role = "assistant"
            /\ added = 2 =>
                  /\ after[Len(after) - 1].role = "user"
                  /\ after[Len(after) - 1].content = arg.text

\* a transcript of three calls: prompt, input and prompt, input and prompt
C27_Witness ==
    /\ Returned
    /\ Len(state["history"]) = 5
    /\ Len(state["output_messages"]) = 3
    /\ state["history"][1].role = "assistant"
    /\ state["history"][2].role = "user"
    /\ state["history"][4].role = "user"
    /\ Len(Hist(pre)) = 3

AlreadyEndedMessage == "This chat already ended. Good bye!"

\* the fields a call on a completed session is said to leave alone
KeptWhenCompleted ==
    {"retry_count", "attempt_count", "user_choice", "raw_results", "final_result",
     "completed"}

\* C28: a call with a non-empty input on a completed session appends the
\* input to user_inputs and as a user entry to history, appends the "already
\* ended" message to output_messages and history, and leaves retry_count,
\* attempt_count, user_choice, raw_results, final_result and completed as
\* they were.
C28_InputAfterCompletionIsFreeText ==
    (Returned /\ IsCompleted(pre) /\ Truthy(arg)) =>
        LET h == state["history"]
        IN  /\ state["user_inputs"] = Append(pre["user_inputs"], arg.text)
            /\ Len(h) = Len(pre["history"]) + 2
            /\ IsPrefixOf(pre["history"], h)
            /\ h[Len(h) - 1].role = "user"
            /\ h[Len(h) - 1].content = arg.text
            /\ h[Len(h)].role = "assistant"
            /\ h[Len(h)].content = AlreadyEndedMessage
            /\ state["output_messages"] = Append(pre["output_messages"], AlreadyEndedMessage)
            /\ \A k \in KeptWhenCompleted :
                  /\ Has(state, k) <=> Has(pre, k)
                  /\ Has(pre, k) => state[k] = pre[k]

\* C29: whatever the interleaving of the init_db, save_state and load_state
\* calls of several threads, init_db empties _storage at most once and not
\* after a save_state has completed; hence the state of every completed
\* save_state stays stored, and a load_state returns the state of the last
\* completed save_state of its id.
C29_InitNeverDiscardsSavedState ==
    /\ resets <= 1
    /\ (\E t \in Threads : threads[t].pc = "init_db_storage") => saved = EmptyDict
    /\ \A flow_uuid \in DOMAIN saved :
          stored_state(persistence, flow_uuid) = LastSaved(flow_uuid)
    /\ loaded.flow_uuid # NoId => loaded.result = LastSaved(loaded.flow_uuid)

\* both threads found _initialized false before taking the lock; the one
\* that came second to init_db did not empty the storage, in which the other
\* had saved a state by then, and has loaded that state
C29_Witness ==
    /\ resets = 1
    /\ persistence.initialized
    /\ Has(saved, "test-flow-123")
    /\ \E t \in Threads :
          /\ threads[t].pc = "locked_part"
          /\ threads[t].op = "load_state"
          /\ threads[t].flow_uuid = "test-flow-456"
    /\ loaded.flow_uuid = "test-flow-123"
    /\ loaded.result.found

\* C30: two SessionManager objects constructed without a session_id have
\* different session ids; and the sessions one manager returned for
\* different agent names have different ids, of the form
\* <session_id>_<agent>, while the session returned for no agent has the
\* session_id of the manager.
C30_OwnSessionIdPerManager ==
    /\ \A m1, m2 \in DOMAIN managers :
          (m1 # m2 /\ ~managers[m1].given /\ ~managers[m2].given) =>
              managers[m1].session_id # managers[m2].session_id
    /\ \A s1, s2 \in sessions :
          (s1.manager = s2.manager /\ s1.agent # s2.agent) =>
              s1.session_id # s2.session_id
    /\ \A s1 \in sessions :
          s1.session_id = IF s1.agent = ""
                          THEN managers[s1.manager].session_id
                          ELSE managers[s1.manager].session_id \o "_" \o s1.agent

====
